---------------------------- MODULE Spec2Model ----------------------------
(***************************************************************************)
(* The rosario_bus_transport integration: config entries are set up and    *)
(* unloaded against a per-agency coordinator kept in hass.data[DOMAIN];    *)
(* the coordinator polls the arrival service and every sensor re-derives   *)
(* its state from the coordinator's cache when it is notified.             *)
(*                                                                         *)
(* Python values are encoded as follows.  A dict is a function whose       *)
(* DOMAIN is its key set.  An optional value (None or a value) is a        *)
(* sequence of length 0 or 1.  A JSON value that is either a list or a     *)
(* single object is [kind |-> "list" | "obj", items |-> <sequence>].       *)
(* A datetime is [sec |-> seconds, usec |-> microseconds].                 *)
(***************************************************************************)
EXTENDS Integers, Sequences, FiniteSets, TLC

(***************************************************************************)
(* Bounds of the inputs drawn for the sensor-view specification.           *)
(***************************************************************************)
MaxDirs == 2

MaxPreds == 2

(* Cap on the reference count of one (route, stop) pair: a setup whose     *)
(* first refresh fails leaves its reference behind, so retries would       *)
(* otherwise count without limit.                                          *)
MaxRefs == 2

(***************************************************************************)
(* const.py                                                                *)
(***************************************************************************)
DEFAULT_AGENCY == "MOVI"

(***************************************************************************)
(* The config entries of the host.  entry.data of "e1" has no agency key,  *)
(* so it falls to the default agency; "e1" and "e2" name the same          *)
(* (stop, route) pair of the same agency.                                  *)
(***************************************************************************)
Entries == {"e1", "e2"}

EntryData(e) ==
  CASE e = "e1" -> [stop |-> "s1", route |-> "r1"]
    [] e = "e2" -> [agency |-> "MOVI", stop |-> "s1", route |-> "r1"]

(* entry.data.get(CONF_AGENCY, DEFAULT_AGENCY) *)
EntryAgency(e) ==
  IF "agency" \in DOMAIN EntryData(e) THEN EntryData(e)["agency"] ELSE DEFAULT_AGENCY

(***************************************************************************)
(* client.py: RouteStop(route_tag, stop_tag) and its canonical string.     *)
(***************************************************************************)
RouteStop(route_tag, stop_tag) == <<route_tag, stop_tag>>

RouteStopStr(rs) == rs[1] \o "|" \o rs[2]

Agencies == {EntryAgency(e) : e \in Entries}

Routes == {"r1"}

Stops == {"s1", "s2"}

RouteStops == {RouteStop(route, stop) : route \in Routes, stop \in Stops}

EntryKey(e) == RouteStop(EntryData(e)["route"], EntryData(e)["stop"])

(***************************************************************************)
(* Generic dict and optional helpers.                                      *)
(***************************************************************************)
None == << >>

Some(v) == <<v>>

EmptyDict == [k \in {} |-> ""]

DictGet(d, k, default) == IF k \in DOMAIN d THEN d[k] ELSE default

DictSet(d, k, v) == [x \in (DOMAIN d) \cup {k} |-> IF x = k THEN v ELSE d[x]]

DictPop(d, k) == [x \in (DOMAIN d) \ {k} |-> d[x]]

RECURSIVE Join(_, _)
Join(sep, strs) ==
  IF strs = << >> THEN ""
  ELSE IF Len(strs) = 1 THEN strs[1]
  ELSE strs[1] \o sep \o Join(sep, Tail(strs))

RECURSIVE Chain(_)
Chain(lists) ==
  IF lists = << >> THEN << >> ELSE Head(lists) \o Chain(Tail(lists))


(***************************************************************************)
(* sensor.py: the helpers _handle_coordinator_update uses.                 *)
(***************************************************************************)
(* int() on the decimal strings that occur in the modelled responses. *)
IntOf(str) ==
  CASE str = "2" -> 2
    [] str = "5" -> 5
    [] str = "05" -> 5
    [] str = "10" -> 10
    [] str = "900000" -> 900000
    [] str = "1000000" -> 1000000
    [] str = "1300500" -> 1300500

(* listify(maybe_list): None -> [], a list -> itself, an object -> [object] *)
listify(maybe_list) ==
  IF maybe_list = None THEN << >>
  ELSE IF maybe_list[1].kind = "list" THEN maybe_list[1].items
  ELSE <<maybe_list[1].items[1]>>

(* maybe_first(maybe_list): the first element of a non-empty list *)
maybe_first(maybe_list) == maybe_list[1]

(* utc_from_timestamp(int(epochTime) / 1000): a float number of seconds *)
(* turned into a datetime with microsecond resolution.                  *)
utc_from_timestamp_ms(epochTime) ==
  [sec |-> IntOf(epochTime) \div 1000, usec |-> (IntOf(epochTime) % 1000) * 1000]

(* sorted(strs, key=int): Python's sort is stable; insertion after the *)
(* last element whose key is not greater keeps the source order of ties. *)
RECURSIVE InsertByInt(_, _)
InsertByInt(sorted, str) ==
  IF sorted = << >> THEN <<str>>
  ELSE IF IntOf(str) < IntOf(Head(sorted)) THEN <<str>> \o sorted
  ELSE <<Head(sorted)>> \o InsertByInt(Tail(sorted), str)

RECURSIVE SortedFrom(_, _)
SortedFrom(acc, strs) ==
  IF strs = << >> THEN acc ELSE SortedFrom(InsertByInt(acc, Head(strs)), Tail(strs))

SourceOrder(strs) == strs

sorted_by_int(strs) == SortedFrom(<< >>, strs)

(* directions = listify(results.get("direction", [])) *)
DirectionsOf(results) ==
  listify(IF "direction" \in DOMAIN results THEN Some(results["direction"])
          ELSE Some([kind |-> "list", items |-> << >>]))

(* the predictions of every direction, listified and chained in source order *)
PredictionsOf(results) ==
  LET directions == DirectionsOf(results)
  IN Chain([i \in 1..Len(directions) |->
              listify(IF "prediction" \in DOMAIN directions[i]
                      THEN Some(directions[i]["prediction"])
                      ELSE Some([kind |-> "list", items |-> << >>]))])

MessagesOf(results) ==
  listify(IF "message" \in DOMAIN results THEN Some(results["message"])
          ELSE Some([kind |-> "list", items |-> << >>]))

(***************************************************************************)
(* sensor.py: RosarioBusDepartureSensor.  A sensor is                      *)
(*   native   : _attr_native_value, None or a datetime                     *)
(*   attrs    : _attr_extra_state_attributes                               *)
(*   wrote    : whether the last run of _handle_coordinator_update reached *)
(*              async_write_ha_state                                       *)
(*   notified : how many times the coordinator's last refresh ran the      *)
(*              sensor's callback                                          *)
(***************************************************************************)
NewSensor == [native |-> None, attrs |-> EmptyDict, wrote |-> FALSE, notified |-> 0]

(* "if not results or 'Error' in results": None and the empty dict are falsy *)
IsErrorResult(results) ==
  \/ results = None
  \/ DOMAIN results[1] = {}
  \/ "Error" \in DOMAIN results[1]

ClearKeepUpcoming(s) == [s EXCEPT !.native = None, !.wrote = FALSE]

(* the early-return branch: native value None, "upcoming" popped, return *)
(* before async_write_ha_state                                           *)
ClearOnError(s) ==
  [s EXCEPT !.native = None, !.attrs = DictPop(@, "upcoming"), !.wrote = FALSE]

(* the rest of the method, for a usable prediction record *)
DeriveView(s, rec) ==
  LET titled == DictSet(DictSet(DictSet(s.attrs,
                  "agency", DictGet(rec, "agencyTitle", "None")),
                  "route", DictGet(rec, "routeTitle", "None")),
                  "stop", DictGet(rec, "stopTitle", "None"))
      messages == MessagesOf(rec)
      withMessage == DictSet(titled, "message",
                       Join(" -- ", [i \in 1..Len(messages) |-> DictGet(messages[i], "text", "")]))
      directions == DirectionsOf(rec)
      withDirection == DictSet(withMessage, "direction",
                         Join(", ", [i \in 1..Len(directions) |-> DictGet(directions[i], "title", "")]))
      predictions == PredictionsOf(rec)
  IN IF predictions = << >>
     THEN [s EXCEPT !.native = None,
                    !.attrs = DictSet(withDirection, "upcoming", "No upcoming predictions"),
                    !.wrote = TRUE]
     ELSE [s EXCEPT !.native = Some(utc_from_timestamp_ms(maybe_first(predictions)["epochTime"])),
                    !.attrs = DictSet(withDirection, "upcoming",
                                Join(", ", sorted_by_int([i \in 1..Len(predictions) |->
                                                            predictions[i]["minutes"]]))),
                    !.wrote = TRUE]

(* _handle_coordinator_update, given what get_prediction_data returned *)
handle_coordinator_update(s, results) ==
  IF IsErrorResult(results) THEN ClearOnError(s) ELSE DeriveView(s, results[1])

(***************************************************************************)
(* The agency coordinator (RosarioBusDataUpdateCoordinator): its           *)
(* subscription set is a reference count per RouteStop, its cache a        *)
(* mapping from RouteStop to the record of the last successful fetch.      *)
(***************************************************************************)
NoSubscriptions == [rs \in RouteStops |-> 0]

add_stop_route_as_set(subs, stop, route) ==
  [subs EXCEPT ![RouteStop(route, stop)] = IF @ = 0 THEN 1 ELSE @]

add_stop_route(subs, stop, route) ==
  [subs EXCEPT ![RouteStop(route, stop)] = @ + 1]

remove_stop_route(subs, stop, route) ==
  [subs EXCEPT ![RouteStop(route, stop)] = IF @ > 0 THEN @ - 1 ELSE 0]

has_routes(subs) == \E rs \in RouteStops : subs[rs] > 0

SubscribedKeys(subs) == {rs \in RouteStops : subs[rs] > 0}

(* remove_stop_route drops the cached record of a key whose count reached zero *)
DropUnsubscribed(mapping, subs) ==
  [rs \in (DOMAIN mapping) \cap SubscribedKeys(subs) |-> mapping[rs]]

(* get_prediction_data(stop, route): a lookup in the cached mapping *)
get_prediction_data(isPopulated, mapping, stop, route) ==
  IF isPopulated /\ RouteStop(route, stop) \in DOMAIN mapping
  THEN Some(mapping[RouteStop(route, stop)])
  ELSE None

CacheDiscarded(mapping) == [rs \in {} |-> EmptyDict]

(* a failed refresh leaves the cached mapping as it is *)
CacheAfterFailure(mapping) == mapping

(***************************************************************************)
(* The records the arrival service answers with in the life-cycle          *)
(* specification.                                                          *)
(***************************************************************************)
Prediction(minutes, epochTime) == [minutes |-> minutes, epochTime |-> epochTime]

Direction(title, predictions) ==
  [title |-> title, prediction |-> [kind |-> "list", items |-> predictions]]

Record(messages, directions) ==
  [agencyTitle |-> "Movi", routeTitle |-> "Linea 101", stopTitle |-> "Parada",
   message |-> [kind |-> "list", items |-> messages],
   direction |-> [kind |-> "list", items |-> directions]]

RecTwoBuses ==
  Record(<< >>, <<Direction("North", <<Prediction("5", "1000000"), Prediction("2", "900000")>>)>>)

RecNoBuses == Record(<<[text |-> "Sin servicio"]>>, << >>)

RecError == [Error |-> "route not found"]

FetchRecords == {RecTwoBuses, RecNoBuses, RecError}

(* the mappings a successful fetch for the requested keys can return: a *)
(* requested key may be missing from the response.  The body of         *)
(* RosarioBusClient.get_predictions_for_multi_stops is empty in         *)
(* client.py, so the answers are the service's rather than computed.    *)
Responses(keys, records) == UNION {[K -> records] : K \in SUBSET keys}

(***************************************************************************)
(* State.                                                                  *)
(***************************************************************************)
VARIABLES
  registry,     \* hass.data[DOMAIN]: agency -> the entry whose setup created its coordinator, or NoCoord
  route_stops,  \* agency -> the coordinator's subscription set
  cache,        \* agency -> the coordinator's cached mapping
  populated,    \* agency -> whether a fetch of the coordinator has succeeded
  last_error,   \* agency -> whether the coordinator's last refresh failed
  inflight,     \* agency -> number of outbound fetches in flight
  request,      \* agency -> the keys the fetch in flight asked for
  owner,        \* agency -> who awaits the fetch in flight: an entry's first refresh, or "timer"
  phase,        \* entry -> where its setup or unload stands
  sensors,      \* entry -> None, or Some(sensor) once the platform added its entity
  viewResults,  \* sensor-view specification: the lookup result handed to the sensor
  viewSensor,   \* sensor-view specification: the sensor
  viewPc        \* sensor-view specification: "ready" before the update, "done" after

vars == <<registry, route_stops, cache, populated, last_error, inflight, request,
          owner, phase, sensors, viewResults, viewSensor, viewPc>>

coordVars == <<registry, route_stops, cache, populated, last_error, inflight, request, owner>>

viewVars == <<viewResults, viewSensor, viewPc>>

NoCoord == "none"

EmptyMapping == [rs \in {} |-> EmptyDict]

Init ==
  /\ registry = [a \in Agencies |-> NoCoord]
  /\ route_stops = [a \in Agencies |-> NoSubscriptions]
  /\ cache = [a \in Agencies |-> EmptyMapping]
  /\ populated = [a \in Agencies |-> FALSE]
  /\ last_error = [a \in Agencies |-> FALSE]
  /\ inflight = [a \in Agencies |-> 0]
  /\ request = [a \in Agencies |-> {}]
  /\ owner = [a \in Agencies |-> "none"]
  /\ phase = [e \in Entries |-> "not_loaded"]
  /\ sensors = [e \in Entries |-> None]
  /\ viewResults = None
  /\ viewSensor = NewSensor
  /\ viewPc = "off"

(* the sensors registered as listeners of the agency's coordinator *)
Listeners(a) == {e \in Entries : sensors[e] # None /\ EntryAgency(e) = a}

(* what the sensor of entry e reads from a coordinator in the given state *)
LookupFor(e, isPopulated, mapping) ==
  get_prediction_data(isPopulated, mapping, EntryData(e)["stop"], EntryData(e)["route"])

(* async_update_listeners: every registered callback runs once *)
NotifyListeners(a, isPopulated, mapping) ==
  [e \in Entries |->
     IF e \in Listeners(a)
     THEN Some([handle_coordinator_update(sensors[e][1], LookupFor(e, isPopulated, mapping))
                  EXCEPT !.notified = 1])
     ELSE sensors[e]]

(***************************************************************************)
(* __init__.py: async_setup_entry.  The coroutine runs up to its first     *)
(* await in one step: the coordinator is looked up or created and the      *)
(* entry's pair is subscribed.                                             *)
(***************************************************************************)
(* hass.data.setdefault(DOMAIN, {}).get(agency); a coordinator is created *)
(* and stored only "if coordinator is None"                               *)
RegistryAfterSetup(reg, e) ==
  IF reg[EntryAgency(e)] = NoCoord THEN [reg EXCEPT ![EntryAgency(e)] = e] ELSE reg

SetupBegin(e) ==
  LET a == EntryAgency(e)
      created == registry[a] = NoCoord
      subs == IF created THEN NoSubscriptions ELSE route_stops[a]
  IN /\ phase[e] = "not_loaded"
     /\ subs[EntryKey(e)] < MaxRefs
     /\ registry' = RegistryAfterSetup(registry, e)
     /\ route_stops' = [route_stops EXCEPT
                          ![a] = add_stop_route(subs, EntryData(e)["stop"], EntryData(e)["route"])]
     /\ cache' = [cache EXCEPT ![a] = IF created THEN EmptyMapping ELSE @]
     /\ populated' = [populated EXCEPT ![a] = IF created THEN FALSE ELSE @]
     /\ last_error' = [last_error EXCEPT ![a] = IF created THEN FALSE ELSE @]
     /\ inflight' = [inflight EXCEPT ![a] = IF created THEN 0 ELSE @]
     /\ request' = [request EXCEPT ![a] = IF created THEN {} ELSE @]
     /\ owner' = [owner EXCEPT ![a] = IF created THEN "none" ELSE @]
     /\ phase' = [phase EXCEPT ![e] = "first_refresh"]
     /\ UNCHANGED <<sensors, viewVars>>

(***************************************************************************)
(* The coordinator's refresh.  One fetch per agency at a time: a refresh   *)
(* starts only when none is in flight.                                     *)
(***************************************************************************)
MayStartFetchAlways(a) == TRUE

MayStartFetch(a) == inflight[a] = 0

(* await coordinator.async_config_entry_first_refresh(): the fetch goes out *)
FirstRefreshStart(e) ==
  LET a == EntryAgency(e)
  IN /\ phase[e] = "first_refresh"
     /\ MayStartFetch(a)
     /\ inflight' = [inflight EXCEPT ![a] = @ + 1]
     /\ request' = [request EXCEPT ![a] = SubscribedKeys(route_stops[a])]
     /\ owner' = [owner EXCEPT ![a] = e]
     /\ phase' = [phase EXCEPT ![e] = "fetching"]
     /\ UNCHANGED <<registry, route_stops, cache, populated, last_error, sensors, viewVars>>

(* the periodic timer of an active coordinator fires *)
TimerTick(a) ==
  /\ registry[a] # NoCoord
  /\ has_routes(route_stops[a])
  /\ MayStartFetch(a)
  /\ inflight' = [inflight EXCEPT ![a] = @ + 1]
  /\ request' = [request EXCEPT ![a] = SubscribedKeys(route_stops[a])]
  /\ owner' = [owner EXCEPT ![a] = "timer"]
  /\ UNCHANGED <<registry, route_stops, cache, populated, last_error, phase, sensors, viewVars>>

(* the fetch in flight answers: the cached mapping is replaced wholesale, *)
(* the listeners are notified, and a first refresh returns to its setup   *)
FetchSucceed(a, response) ==
  /\ inflight[a] > 0
  /\ inflight' = [inflight EXCEPT ![a] = @ - 1]
  /\ cache' = [cache EXCEPT ![a] = response]
  /\ populated' = [populated EXCEPT ![a] = TRUE]
  /\ last_error' = [last_error EXCEPT ![a] = FALSE]
  /\ sensors' = NotifyListeners(a, TRUE, response)
  /\ phase' = IF owner[a] \in Entries THEN [phase EXCEPT ![owner[a]] = "ready"] ELSE phase
  /\ owner' = [owner EXCEPT ![a] = "none"]
  /\ request' = [request EXCEPT ![a] = {}]
  /\ UNCHANGED <<registry, route_stops, viewVars>>

(* the fetch in flight fails: the mapping stays, the error is recorded, the *)
(* listeners are notified, and a first refresh raises out of its setup, the *)
(* host putting the entry back to not loaded to retry it later              *)
FetchFail(a) ==
  /\ inflight[a] > 0
  /\ inflight' = [inflight EXCEPT ![a] = @ - 1]
  /\ cache' = [cache EXCEPT ![a] = CacheAfterFailure(@)]
  /\ last_error' = [last_error EXCEPT ![a] = TRUE]
  /\ sensors' = NotifyListeners(a, populated[a], CacheAfterFailure(cache[a]))
  /\ phase' = IF owner[a] \in Entries THEN [phase EXCEPT ![owner[a]] = "not_loaded"] ELSE phase
  /\ owner' = [owner EXCEPT ![a] = "none"]
  /\ request' = [request EXCEPT ![a] = {}]
  /\ UNCHANGED <<registry, route_stops, populated, viewVars>>

(***************************************************************************)
(* async_setup_entry after the first refresh returned:                     *)
(* async_forward_entry_setups runs the sensor platform, which adds the     *)
(* entity; async_added_to_hass runs _handle_coordinator_update and then    *)
(* registers the entity as a listener.  The entity reads the coordinator   *)
(* registered for its agency.                                              *)
(***************************************************************************)
MayForwardBeforeRefresh(e) == phase[e] \in {"first_refresh", "fetching", "ready"}

MayForward(e) == phase[e] = "ready"

SetupForward(e) ==
  LET a == EntryAgency(e)
  IN /\ MayForward(e)
     /\ sensors' = [sensors EXCEPT
                      ![e] = Some(handle_coordinator_update(NewSensor,
                                    LookupFor(e, populated[a], cache[a])))]
     /\ phase' = [phase EXCEPT ![e] = "loaded"]
     /\ UNCHANGED <<coordVars, viewVars>>

(***************************************************************************)
(* __init__.py: async_unload_entry.                                        *)
(***************************************************************************)
(* async_unload_platforms returns True: the entity is removed *)
UnloadPlatforms(e) ==
  /\ phase[e] = "loaded"
  /\ sensors' = [sensors EXCEPT ![e] = None]
  /\ phase' = [phase EXCEPT ![e] = "unloading"]
  /\ UNCHANGED <<coordVars, viewVars>>

(* async_unload_platforms returns False: async_unload_entry returns False *)
(* and touches nothing; the host marks the entry as failed to unload      *)
UnloadPlatformsRefused(e) ==
  /\ phase[e] = "loaded"
  /\ phase' = [phase EXCEPT ![e] = "failed_unload"]
  /\ UNCHANGED <<coordVars, sensors, viewVars>>

RetireAlways(subs) == TRUE

(* "if not coordinator.has_routes()" *)
ShouldRetire(subs) == ~has_routes(subs)

(* the rest of async_unload_entry: remove_stop_route, then pop the     *)
(* coordinator from the registry when it has no routes left.  A popped *)
(* coordinator can no longer be reached: its cache, its error and a    *)
(* fetch it may still have outstanding leave the state with it; its    *)
(* subscription set stays as remove_stop_route left it.                *)
UnloadFinish(e) ==
  LET a == EntryAgency(e)
      subs == remove_stop_route(route_stops[a], EntryData(e)["stop"], EntryData(e)["route"])
      retire == ShouldRetire(subs)
  IN /\ phase[e] = "unloading"
     /\ route_stops' = [route_stops EXCEPT ![a] = subs]
     /\ registry' = [registry EXCEPT ![a] = IF retire THEN NoCoord ELSE @]
     /\ cache' = [cache EXCEPT ![a] = IF retire THEN EmptyMapping ELSE DropUnsubscribed(@, subs)]
     /\ populated' = [populated EXCEPT ![a] = IF retire THEN FALSE ELSE @]
     /\ last_error' = [last_error EXCEPT ![a] = IF retire THEN FALSE ELSE @]
     /\ inflight' = [inflight EXCEPT ![a] = IF retire THEN 0 ELSE @]
     /\ request' = [request EXCEPT ![a] = IF retire THEN {} ELSE @]
     /\ owner' = [owner EXCEPT ![a] = IF retire THEN "none" ELSE @]
     /\ phase' = [phase EXCEPT ![e] = "not_loaded"]
     /\ UNCHANGED <<sensors, viewVars>>

Next ==
  \/ \E e \in Entries : SetupBegin(e)
  \/ \E e \in Entries : FirstRefreshStart(e)
  \/ \E a \in Agencies : TimerTick(a)
  \/ \E a \in Agencies : \E response \in Responses(request[a], FetchRecords) :
       FetchSucceed(a, response)
  \/ \E a \in Agencies : FetchFail(a)
  \/ \E e \in Entries : SetupForward(e)
  \/ \E e \in Entries : UnloadPlatforms(e)
  \/ \E e \in Entries : UnloadPlatformsRefused(e)
  \/ \E e \in Entries : UnloadFinish(e)

Spec == Init /\ [][Next]_vars

(***************************************************************************)
(* The sensor-view specification: _handle_coordinator_update as a function *)
(* of the lookup result and of the sensor it finds.  The lookup results    *)
(* are None, the empty dict, records carrying "Error", and every record    *)
(* with up to MaxDirs directions of up to MaxPreds distinct predictions     *)
(* each; the sensor is a new one or one that already derived a view.       *)
(***************************************************************************)
ViewPredictions ==
  {Prediction("5", "1000000"), Prediction("2", "900000"), Prediction("05", "1300500")}

SeqsUpTo(S, n) == UNION {[1..k -> S] : k \in 0..n}

(* the sequences of up to n distinct elements of S *)
DistinctSeqsUpTo(S, n) ==
  {seq \in SeqsUpTo(S, n) : \A i, j \in 1..Len(seq) : i # j => seq[i] # seq[j]}

ViewPredictionValues ==
  {[kind |-> "list", items |-> preds] : preds \in DistinctSeqsUpTo(ViewPredictions, MaxPreds)}
    \cup {[kind |-> "obj", items |-> <<Prediction("10", "900000")>>]}

ViewDirections ==
  {[title |-> "North", prediction |-> v] : v \in ViewPredictionValues}
    \cup {[title |-> "South"]}

ViewDirectionValues ==
  {[kind |-> "list", items |-> dirs] : dirs \in SeqsUpTo(ViewDirections, MaxDirs)}
    \cup {[kind |-> "obj", items |-> <<Direction("North", <<Prediction("2", "900000")>>)>>]}

ViewRecords ==
  {[agencyTitle |-> "Movi", routeTitle |-> "Linea 101", stopTitle |-> "Parada",
    message |-> [kind |-> "list", items |-> << >>], direction |-> d] : d \in ViewDirectionValues}
    \cup {[agencyTitle |-> "Movi"]}

ViewLookups ==
  {None, Some(EmptyDict), Some(RecError),
   Some([Error |-> "timeout",
         direction |-> [kind |-> "list",
                        items |-> <<Direction("North", <<Prediction("2", "900000")>>)>>]])}
    \cup {Some(rec) : rec \in ViewRecords}

PriorSensors ==
  {NewSensor} \cup {handle_coordinator_update(NewSensor, Some(rec)) : rec \in FetchRecords}

InitView ==
  /\ registry = [a \in Agencies |-> NoCoord]
  /\ route_stops = [a \in Agencies |-> NoSubscriptions]
  /\ cache = [a \in Agencies |-> EmptyMapping]
  /\ populated = [a \in Agencies |-> FALSE]
  /\ last_error = [a \in Agencies |-> FALSE]
  /\ inflight = [a \in Agencies |-> 0]
  /\ request = [a \in Agencies |-> {}]
  /\ owner = [a \in Agencies |-> "none"]
  /\ phase = [e \in Entries |-> "not_loaded"]
  /\ sensors = [e \in Entries |-> None]
  /\ viewResults \in ViewLookups
  /\ viewSensor \in PriorSensors
  /\ viewPc = "ready"

ViewUpdate ==
  /\ viewPc = "ready"
  /\ viewSensor' = handle_coordinator_update(viewSensor, viewResults)
  /\ viewPc' = "done"
  /\ UNCHANGED <<coordVars, phase, sensors, viewResults>>

NextView == ViewUpdate

SpecView == InitView /\ [][NextView]_vars

(***************************************************************************)
(* Properties.                                                             *)
(***************************************************************************)
SensorOf(e) == sensors[e][1]

(* no setup or unload is part-way through *)
Quiescent == \A e \in Entries : phase[e] \in {"not_loaded", "loaded", "failed_unload"}

(* a step in which the fetch in flight of agency a completes *)
RefreshCompletes(a) ==
  /\ inflight[a] > 0
  /\ inflight'[a] = inflight[a] - 1
  /\ registry'[a] = registry[a]

(* a step in which the fetch in flight of agency a fails *)
RefreshFails(a) == RefreshCompletes(a) /\ last_error'[a]

(* C1: whenever no setup or unload is part-way through, a (route, stop)   *)
(* pair is in the agency coordinator's subscription set if and only if at *)
(* least one active sensor references that pair.                          *)
C1_SubscribedIffReferenced ==
  Quiescent =>
    \A a \in Agencies : \A rs \in RouteStops :
      (route_stops[a][rs] > 0) <=>
        (\E e \in Entries : sensors[e] # None /\ EntryAgency(e) = a /\ EntryKey(e) = rs)

(* C2: the registry holds a coordinator for an agency exactly when the     *)
(* agency's subscription set is non-empty, and a coordinator that stays    *)
(* registered is never replaced by another instance: later setups of the   *)
(* agency reuse it.                                                        *)
C2_RegistryTracksSubscriptions ==
  /\ [](\A a \in Agencies : (registry[a] # NoCoord) <=> has_routes(route_stops[a]))
  /\ [][\A a \in Agencies :
          (registry[a] # NoCoord /\ registry'[a] # NoCoord) => registry'[a] = registry[a]]_vars

(* C2 witness: the coordinator "e1" created serves both loaded entries *)
C2_Witness ==
  /\ registry["MOVI"] = "e1"
  /\ phase["e1"] = "loaded"
  /\ phase["e2"] = "loaded"

(* C3: in every reachable subscription state and for every (stop, route)   *)
(* pair, add_stop_route followed by remove_stop_route gives back the       *)
(* subscription set with its reference counts; a pair subscribed before    *)
(* stays subscribed, and has_routes() is false afterwards if nothing was   *)
(* subscribed before.                                                      *)
C3_AddThenRemoveRestores ==
  \A a \in Agencies : \A route \in Routes : \A stop \in Stops :
    LET before == route_stops[a]
        after == remove_stop_route(add_stop_route(before, stop, route), stop, route)
    IN /\ after = before
       /\ before[RouteStop(route, stop)] > 0 => after[RouteStop(route, stop)] > 0
       /\ ~has_routes(before) => ~has_routes(after)

(* C3 witness: "e2" created the coordinator and subscribed the pair, "e1"  *)
(* subscribed the same pair, and "e2" has been unloaded again: exactly the *)
(* reference of "e1" is left.                                              *)
C3_Witness ==
  /\ registry["MOVI"] = "e2"
  /\ phase["e2"] = "not_loaded"
  /\ phase["e1"] = "loaded"
  /\ route_stops["MOVI"][EntryKey("e1")] = 1

(* C4: a sensor exists only on a registered coordinator whose cache has    *)
(* been populated by a completed fetch, so the _handle_coordinator_update  *)
(* run from async_added_to_hass never reads a never-fetched cache.         *)
C4_SensorsReadFetchedCache ==
  \A e \in Entries :
    sensors[e] # None => registry[EntryAgency(e)] # NoCoord /\ populated[EntryAgency(e)]

(* C4 witness: a sensor whose only update so far is the one of             *)
(* async_added_to_hass, and which derived an arrival time from the cache   *)
C4_Witness ==
  \E e \in Entries :
    /\ sensors[e] # None
    /\ SensorOf(e).notified = 0
    /\ SensorOf(e).native # None

(* C5: a failed refresh leaves get_prediction_data unchanged for every key *)
C5_FailureKeepsCache ==
  [][\A a \in Agencies :
       RefreshFails(a) =>
         \A route \in Routes : \A stop \in Stops :
           get_prediction_data(populated'[a], cache'[a], stop, route)
             = get_prediction_data(populated[a], cache[a], stop, route)]_vars

(* C5 witness: the last refresh failed and the record of an earlier *)
(* successful fetch is still returned                               *)
C5_Witness ==
  \E a \in Agencies :
    /\ last_error[a]
    /\ inflight[a] = 0
    /\ get_prediction_data(populated[a], cache[a], "s1", "r1") = Some(RecTwoBuses)

(* C6: when a refresh fails, a notified sensor that showed an arrival time *)
(* has no native value afterwards.                                         *)
C6_FailureShowsUnknown ==
  [][\A a \in Agencies : \A e \in Entries :
       (RefreshFails(a) /\ e \in Listeners(a) /\ SensorOf(e).native # None)
         => SensorOf(e)'.native = None]_vars

(***************************************************************************)
(* The predictions of a record by their place in the source: <<i, j>> is   *)
(* the j-th prediction of the i-th direction.                              *)
(***************************************************************************)
SrcDirections(rec) == IF "direction" \in DOMAIN rec THEN rec["direction"].items ELSE << >>

SrcPredictions(dir) == IF "prediction" \in DOMAIN dir THEN dir["prediction"].items ELSE << >>

Places(rec) ==
  UNION {{<<i, j>> : j \in 1..Len(SrcPredictions(SrcDirections(rec)[i]))} :
           i \in 1..Len(SrcDirections(rec))}

PredictionAt(rec, place) == SrcPredictions(SrcDirections(rec)[place[1]])[place[2]]

Earlier(p, q) == p[1] < q[1] \/ (p[1] = q[1] /\ p[2] < q[2])

FirstPlace(rec) == CHOOSE p \in Places(rec) : \A q \in Places(rec) \ {p} : Earlier(p, q)

(* the minutes of all predictions in ascending integer order, ties in   *)
(* source order: a prediction's rank is one more than the number of     *)
(* predictions with fewer minutes, or with as many and an earlier place *)
MinutesByRank(rec) ==
  LET places == Places(rec)
      minutes == [p \in places |-> PredictionAt(rec, p).minutes]
      key == [p \in places |-> IntOf(minutes[p])]
      rank == [p \in places |->
                 1 + Cardinality({q \in places :
                       key[q] < key[p] \/ (key[q] = key[p] /\ Earlier(q, p))})]
  IN [k \in 1..Cardinality(places) |-> minutes[CHOOSE p \in places : rank[p] = k]]

UsableResult(results) ==
  /\ results # None
  /\ DOMAIN results[1] # {}
  /\ "Error" \notin DOMAIN results[1]

(* C7: for a record with at least one prediction, the native value is the  *)
(* time of the first prediction in source order and "upcoming" is the      *)
(* ", "-joined minutes of all predictions in ascending integer order, ties *)
(* in source order.                                                        *)
C7_FirstInSourceAndSortedUpcoming ==
  (viewPc = "done" /\ UsableResult(viewResults) /\ Places(viewResults[1]) # {}) =>
    LET rec == viewResults[1]
        first == PredictionAt(rec, FirstPlace(rec))
    IN /\ viewSensor.native =
            Some([sec |-> IntOf(first.epochTime) \div 1000,
                  usec |-> (IntOf(first.epochTime) % 1000) * 1000])
       /\ "upcoming" \in DOMAIN viewSensor.attrs
       /\ viewSensor.attrs["upcoming"] = Join(", ", MinutesByRank(rec))

(* C7 witness: the first prediction in the source ("5", at 1000000 ms) is  *)
(* not the one with the fewest minutes, and gives the native value         *)
C7_Witness ==
  /\ viewPc = "done"
  /\ viewResults = Some(RecTwoBuses)
  /\ viewSensor.native = Some([sec |-> 1000, usec |-> 0])
  /\ viewSensor.attrs["upcoming"] = "2, 5"

(* C8: when the lookup is None, the empty dict or carries "Error", the     *)
(* update leaves the native value absent and no "upcoming" attribute,      *)
(* whatever the sensor held before.                                        *)
C8_ErrorClearsNativeAndUpcoming ==
  (viewPc = "done" /\ ~UsableResult(viewResults)) =>
    /\ viewSensor.native = None
    /\ "upcoming" \notin DOMAIN viewSensor.attrs

(* C8 witness: a sensor that had derived a view (its other attributes are  *)
(* still there) was updated with a record carrying "Error"                 *)
C8_Witness ==
  /\ viewPc = "done"
  /\ viewResults # None
  /\ "Error" \in DOMAIN viewResults[1]
  /\ "direction" \in DOMAIN viewSensor.attrs
  /\ "upcoming" \notin DOMAIN viewSensor.attrs

(* C9: when a refresh completes, every sensor registered at that moment    *)
(* has had its callback run exactly once and has published its state.      *)
C9_EveryListenerNotifiedAndPublishes ==
  [][\A a \in Agencies :
       RefreshCompletes(a) =>
         \A e \in Listeners(a) :
           /\ sensors'[e] # None
           /\ SensorOf(e)'.notified = 1
           /\ SensorOf(e)'.wrote]_vars

=============================================================================
